---- MODULE Spec2Model ----
(***************************************************************************)
(* NLPQL definition-file parser and expression reducer of                  *)
(* nlp/data_access/expr_tester.py: _parse_file and _reduce_expressions.    *)
(* Texts, names and expression bodies are strings; the regular expressions *)
(* and the str methods of the source are operators over those strings.     *)
(***************************************************************************)
EXTENDS Integers, Sequences, FiniteSets, TLC

\* ------------------------------------------------------------------------
\* Characters and str methods
\* ------------------------------------------------------------------------

\* the character of s at position i (1-based)
Ch(s, i) == SubSeq(s, i, i)

\* the characters matched by \s
Whitespace == {" ", "\t", "\n", "\r"}

IsSpace(c) == c \in Whitespace

UpperToLower ==
    [c \in {"A","B","C","D","E","F","G","H","I","J","K","L","M",
            "N","O","P","Q","R","S","T","U","V","W","X","Y","Z"} |->
       CASE c = "A" -> "a" [] c = "B" -> "b" [] c = "C" -> "c" [] c = "D" -> "d"
         [] c = "E" -> "e" [] c = "F" -> "f" [] c = "G" -> "g" [] c = "H" -> "h"
         [] c = "I" -> "i" [] c = "J" -> "j" [] c = "K" -> "k" [] c = "L" -> "l"
         [] c = "M" -> "m" [] c = "N" -> "n" [] c = "O" -> "o" [] c = "P" -> "p"
         [] c = "Q" -> "q" [] c = "R" -> "r" [] c = "S" -> "s" [] c = "T" -> "t"
         [] c = "U" -> "u" [] c = "V" -> "v" [] c = "W" -> "w" [] c = "X" -> "x"
         [] c = "Y" -> "y" [] c = "Z" -> "z"]

Lower(c) == IF c \in DOMAIN UpperToLower THEN UpperToLower[c] ELSE c

\* the characters matched by \w
WordChars ==
    DOMAIN UpperToLower \cup {UpperToLower[c] : c \in DOMAIN UpperToLower}
      \cup {"0","1","2","3","4","5","6","7","8","9","_"}

\* \b in front of a word character at position i
WordBoundaryAt(s, i) == i = 1 \/ Ch(s, i - 1) \notin WordChars

\* s[i:].startswith(kw)
StartsWithAt(s, i, kw) ==
    /\ i >= 1
    /\ i + Len(kw) - 1 <= Len(s)
    /\ Ch(s, i) = Ch(kw, 1)
    /\ SubSeq(s, i, i + Len(kw) - 1) = kw

\* the least / greatest element of a non-empty set of integers
Least(S) == CHOOSE k \in S : \A j \in S : k <= j

Greatest(S) == CHOOSE k \in S : \A j \in S : k >= j

\* ''.join(parts)
RECURSIVE Concat(_)
Concat(parts) ==
    LET n == Len(parts)
        h == n \div 2
    IN  IF n = 0 THEN ""
        ELSE IF n = 1 THEN parts[1]
        ELSE Concat(SubSeq(parts, 1, h)) \o Concat(SubSeq(parts, h + 1, n))

\* str.lower()
LowerStr(s) == Concat([j \in 1..Len(s) |-> Lower(Ch(s, j))])

\* s[i:].lower().startswith(kw), kw in lower case (re.IGNORECASE)
StartsWithAtIC(s, i, kw) ==
    /\ i >= 1
    /\ i + Len(kw) - 1 <= Len(s)
    /\ Lower(Ch(s, i)) = Ch(kw, 1)
    /\ LowerStr(SubSeq(s, i, i + Len(kw) - 1)) = kw

\* the least j >= i with s[j] in cs, or 0 when there is none
FindFrom(s, cs, i) ==
    LET found == {j \in i..Len(s) : j >= 1 /\ Ch(s, j) \in cs}
    IN  IF found = {} THEN 0 ELSE Least(found)

\* the position of the first character outside Whitespace at or after i,
\* or Len(s) + 1
FirstNonSpace(s, i) ==
    LET found == {j \in i..Len(s) : ~IsSpace(Ch(s, j))}
    IN  IF found = {} THEN Len(s) + 1 ELSE Least(found)

\* the position of the last character outside Whitespace at or before i, or 0
LastNonSpace(s, i) ==
    LET found == {j \in 1..i : ~IsSpace(Ch(s, j))}
    IN  IF found = {} THEN 0 ELSE Greatest(found)

\* str.strip()
Strip(s) ==
    LET a == FirstNonSpace(s, 1)
        b == LastNonSpace(s, Len(s))
    IN  IF a > b THEN "" ELSE SubSeq(s, a, b)

\* str.split(): the maximal runs of non-whitespace characters
RECURSIVE Split(_)
Split(s) ==
    LET n      == Len(s)
        spaces == {j \in 1..n : IsSpace(Ch(s, j))}
        h      == n \div 2
        \* the whitespace nearest to the middle of s
        w      == CHOOSE j \in spaces : \A k \in spaces :
                      (IF j >= h THEN j - h ELSE h - j)
                        <= (IF k >= h THEN k - h ELSE h - k)
    IN  IF n = 0 THEN << >>
        ELSE IF spaces = {} THEN <<s>>
        ELSE Split(SubSeq(s, 1, w - 1)) \o Split(SubSeq(s, w + 1, n))

\* ' '.join(tokens)
Join(tokens) ==
    Concat([k \in 1..Len(tokens) |->
              IF k = 1 THEN tokens[k] ELSE " " \o tokens[k]])

\* the number of '.' characters of a token
DotCount(s) == Cardinality({j \in 1..Len(s) : Ch(s, j) = "."})

\* token.split('.')[0] of a token that holds a '.'
BeforeDot(token) == SubSeq(token, 1, FindFrom(token, {"."}, 1) - 1)

\* ------------------------------------------------------------------------
\* Text normalisation of _parse_file
\* ------------------------------------------------------------------------

\* re.sub(r'//[^\n]+\n', ' ', text)
\* the pattern matches at i: '//', one or more characters other than a
\* newline, then a newline
CommentAt(s, i) ==
    /\ StartsWithAt(s, i, "//")
    /\ FindFrom(s, {"\n"}, i + 2) > i + 2

\* the leftmost match is replaced, and the search resumes after it
RECURSIVE StripComments(_)
StripComments(s) ==
    LET starts == {i \in 1..Len(s) : CommentAt(s, i)}
        i      == Least(starts)
        nl     == FindFrom(s, {"\n"}, i + 2)
    IN  IF starts = {} THEN s
        ELSE SubSeq(s, 1, i - 1) \o " "
                \o StripComments(SubSeq(s, nl + 1, Len(s)))

\* re.sub(r'\n', ' ', text)
ReplaceNewlines(s) ==
    Concat([j \in 1..Len(s) |-> IF Ch(s, j) = "\n" THEN " " ELSE Ch(s, j)])

\* re.sub(r'\s+', ' ', text): the first character of every run of
\* whitespace becomes a space, the rest of the run goes
CollapseSpaces(s) ==
    Concat([j \in 1..Len(s) |->
              IF ~IsSpace(Ch(s, j)) THEN Ch(s, j)
              ELSE IF j > 1 /\ IsSpace(Ch(s, j - 1)) THEN ""
              ELSE " "])

NormalizeText(s) == CollapseSpaces(ReplaceNewlines(StripComments(s)))

\* ------------------------------------------------------------------------
\* The three statement regular expressions of _parse_file
\* ------------------------------------------------------------------------

NoMatch == [ok |-> FALSE, feature |-> "", expr |-> "", end |-> 0]

\* regex_context_statement.match at position i:  context\s(?P<context>[^;]+);
\* compiled without re.IGNORECASE
ContextMatchAt(s, i) ==
    LET e == FindFrom(s, {";"}, i + 8)
    IN  IF /\ StartsWithAt(s, i, "context")
           /\ i + 7 <= Len(s)
           /\ IsSpace(Ch(s, i + 7))
           /\ e > i + 8
        THEN [ok |-> TRUE, feature |-> "", expr |-> SubSeq(s, i + 8, e - 1),
              end |-> e + 1]
        ELSE NoMatch

\* regex_context_statement.search(text)
ContextSearch(s) ==
    LET starts == {i \in 1..Len(s) : Ch(s, i) = "c" /\ ContextMatchAt(s, i).ok}
    IN  IF starts = {} THEN NoMatch ELSE ContextMatchAt(s, Least(starts))

\* the common head  \bdefine\s(final\s)?(?P<feature>[^:]+):\s  at position i,
\* with or without the optional group; end is the position after the head
DefineHeadAt(s, i, withFinal) ==
    LET p == i + 7
        q == IF withFinal THEN p + 6 ELSE p
        c == FindFrom(s, {":"}, q)
    IN  IF /\ StartsWithAtIC(s, i, "define")
           /\ WordBoundaryAt(s, i)
           /\ i + 6 <= Len(s)
           /\ IsSpace(Ch(s, i + 6))
           /\ withFinal =>
                 /\ StartsWithAtIC(s, p, "final")
                 /\ p + 5 <= Len(s)
                 /\ IsSpace(Ch(s, p + 5))
           /\ c > q
           /\ c + 1 <= Len(s)
           /\ IsSpace(Ch(s, c + 1))
        THEN [ok |-> TRUE, feature |-> SubSeq(s, q, c - 1), expr |-> "",
              end |-> c + 2]
        ELSE NoMatch

\* the tail  where\s(?P<expr>[^;]+);  of regex_expr_statement at position r
ExprTailAt(s, r, head) ==
    LET e == FindFrom(s, {";"}, r + 6)
    IN  IF /\ head.ok
           /\ StartsWithAtIC(s, r, "where")
           /\ r + 5 <= Len(s)
           /\ IsSpace(Ch(s, r + 5))
           /\ e > r + 6
        THEN [ok |-> TRUE, feature |-> head.feature,
              expr |-> SubSeq(s, r + 6, e - 1), end |-> e + 1]
        ELSE NoMatch

\* regex_expr_statement.match at position i: the optional group is tried
\* first, then skipped
ExprMatchAt(s, i) ==
    LET h1 == DefineHeadAt(s, i, TRUE)
        h0 == DefineHeadAt(s, i, FALSE)
        m1 == ExprTailAt(s, h1.end, h1)
        m0 == ExprTailAt(s, h0.end, h0)
    IN  IF m1.ok THEN m1 ELSE m0

\* the tail  (?!where)  of regex_task_statement at position r
TaskTailAt(s, r, head) ==
    IF head.ok /\ ~StartsWithAtIC(s, r, "where") THEN head ELSE NoMatch

\* regex_task_statement.match at position i
TaskMatchAt(s, i) ==
    LET h1 == DefineHeadAt(s, i, TRUE)
        h0 == DefineHeadAt(s, i, FALSE)
        m1 == TaskTailAt(s, h1.end, h1)
        m0 == TaskTailAt(s, h0.end, h0)
    IN  IF m1.ok THEN m1 ELSE m0

\* regex_expr_statement.finditer(text): the matches left to right, each
\* search resuming where the previous match ended
RECURSIVE ExprMatchesFrom(_, _, _)
ExprMatchesFrom(s, starts, i) ==
    LET ahead == {j \in starts : j >= i}
        match == ExprMatchAt(s, Least(ahead))
    IN  IF ahead = {} THEN << >>
        ELSE <<match>> \o ExprMatchesFrom(s, starts, match.end)

ExprFindIter(s) ==
    ExprMatchesFrom(s, {j \in 1..Len(s) : /\ Lower(Ch(s, j)) = "d"
                                          /\ ExprMatchAt(s, j).ok}, 1)

\* regex_task_statement.finditer(text)
RECURSIVE TaskMatchesFrom(_, _, _)
TaskMatchesFrom(s, starts, i) ==
    LET ahead == {j \in starts : j >= i}
        match == TaskMatchAt(s, Least(ahead))
    IN  IF ahead = {} THEN << >>
        ELSE <<match>> \o TaskMatchesFrom(s, starts, match.end)

TaskFindIter(s) ==
    TaskMatchesFrom(s, {j \in 1..Len(s) : /\ Lower(Ch(s, j)) = "d"
                                          /\ TaskMatchAt(s, j).ok}, 1)

\* ------------------------------------------------------------------------
\* Ordered dictionaries and lists
\* ------------------------------------------------------------------------

\* an OrderedDict is the sequence of its (key, value) pairs in insertion order
Keys(dict) == {dict[k][1] : k \in 1..Len(dict)}

\* dict[key], for a key of the dictionary
Lookup(dict, key) ==
    dict[CHOOSE k \in 1..Len(dict) : dict[k][1] = key][2]

\* set(list)
ToSet(list) == {list[k] : k \in 1..Len(list)}

\* every order in which the elements of a set can be iterated
Orderings(S) ==
    {q \in [1..Cardinality(S) -> S] : \A a, b \in 1..Cardinality(S) :
                                          a # b => q[a] # q[b]}

\* ------------------------------------------------------------------------
\* _parse_file: the extraction loops
\* ------------------------------------------------------------------------

\* the loop over regex_expr_statement.finditer(text): dict is expression_dict
\* so far; dup is the feature on which the loop exits, found is FALSE if none
RECURSIVE ExpressionLoop(_, _)
ExpressionLoop(matches, dict) ==
    LET feature    == Strip(Head(matches).feature)
        expression == Strip(Head(matches).expr)
    IN  IF matches = << >> THEN [found |-> FALSE, dup |-> "", dict |-> dict]
        ELSE IF feature \in Keys(dict)
             THEN [found |-> TRUE, dup |-> feature, dict |-> dict]
        ELSE ExpressionLoop(Tail(matches), Append(dict, <<feature, expression>>))

\* the loop over the task statements without its test of task_list
RECURSIVE TaskLoopNoTest(_, _)
TaskLoopNoTest(matches, list) ==
    IF matches = << >> THEN [found |-> FALSE, dup |-> "", list |-> list]
    ELSE TaskLoopNoTest(Tail(matches), Append(list, Strip(Head(matches).feature)))

\* the loop over regex_task_statement.finditer(text)
RECURSIVE TaskLoop(_, _)
TaskLoop(matches, list) ==
    LET task == Strip(Head(matches).feature)
    IN  IF matches = << >> THEN [found |-> FALSE, dup |-> "", list |-> list]
        ELSE IF task \in ToSet(list)
             THEN [found |-> TRUE, dup |-> task, list |-> list]
        ELSE TaskLoop(Tail(matches), Append(list, task))

\* the check of task names against expression names left out
TaskNameClashesNone(list, dict) == {}

\* the loop that checks task names against expression names: the positions
\* of the tasks that are also expression names
TaskNameClashes(list, dict) == {k \in 1..Len(list) : list[k] \in Keys(dict)}

ContextNotFound == "*** parse_file: context statement not found ***"

MultipleDefinitions(name) ==
    "*** parse_file: multiple definitions for \"" \o name \o "\" ***"

\* ------------------------------------------------------------------------
\* _reduce_expressions: one expression of one pass, and the final scan
\* ------------------------------------------------------------------------

\* the branch that expands a token, without the test token != expr_name
IsExpandedSelfToo(token, expr_name, names, tasks, dict) ==
    /\ token \in names
    /\ token \notin tasks
    /\ token \in Keys(dict)

\* the branch that expands a token only when the dictionary holds it before
\* the expression it stands in
IsExpandedDeclaredBefore(token, expr_name, names, tasks, dict) ==
    /\ token \in names
    /\ token \notin tasks
    /\ token # expr_name
    /\ \E j, k \in 1..Len(dict) :
          j < k /\ dict[j][1] = token /\ dict[k][1] = expr_name

\* the branch of the token loop that expands a token
IsExpanded(token, expr_name, names, tasks, dict) ==
    /\ token \in names
    /\ token \notin tasks
    /\ token # expr_name
    /\ token \in Keys(dict)

\* the token loop substituting a body without the parentheses around it
SubstituteTokensBare(tokens, expr_name, names, tasks, dict) ==
    [index \in 1..Len(tokens) |->
       IF IsExpanded(tokens[index], expr_name, names, tasks, dict)
       THEN Lookup(dict, tokens[index])
       ELSE tokens[index]]

\* the token loop substituting the expression's own name as well
SubstituteTokensSelfToo(tokens, expr_name, names, tasks, dict) ==
    [index \in 1..Len(tokens) |->
       IF IsExpandedSelfToo(tokens[index], expr_name, names, tasks, dict)
       THEN "( " \o Lookup(dict, tokens[index]) \o " )"
       ELSE tokens[index]]

\* the token loop substituting the first token it can expand and no other
SubstituteTokensFirstOnly(tokens, expr_name, names, tasks, dict) ==
    [index \in 1..Len(tokens) |->
       IF /\ IsExpanded(tokens[index], expr_name, names, tasks, dict)
          /\ \A before \in 1..(index - 1) :
                ~IsExpanded(tokens[before], expr_name, names, tasks, dict)
       THEN "( " \o Lookup(dict, tokens[index]) \o " )"
       ELSE tokens[index]]

\* the token loop of one expression: the tokens after substitution
SubstituteTokens(tokens, expr_name, names, tasks, dict) ==
    [index \in 1..Len(tokens) |->
       IF IsExpanded(tokens[index], expr_name, names, tasks, dict)
       THEN "( " \o Lookup(dict, tokens[index]) \o " )"
       ELSE tokens[index]]

\* is_composite set for a task name as well
IsCompositeAnyName(tokens, expr_name, names, tasks, dict) ==
    \E index \in 1..Len(tokens) :
        tokens[index] \in names /\ tokens[index] # expr_name

\* is_composite at the end of the token loop
IsComposite(tokens, expr_name, names, tasks, dict) ==
    \E index \in 1..Len(tokens) :
        IsExpanded(tokens[index], expr_name, names, tasks, dict)

\* the for loop of one pass from the expression at position on: the
\* dictionary it leaves, and all_primitive
RECURSIVE ForLoop(_, _, _, _, _)
ForLoop(dict, position, all, names, tasks) ==
    IF position > Len(dict) THEN [expr_dict |-> dict, all_primitive |-> all]
    ELSE LET expr_name == dict[position][1]
             tokens    == Split(dict[position][2])
         IN  IF IsComposite(tokens, expr_name, names, tasks, dict)
             THEN ForLoop([dict EXCEPT ![position] =
                             <<expr_name,
                               Join(SubstituteTokens(tokens, expr_name, names,
                                                     tasks, dict))>>],
                          position + 1, FALSE, names, tasks)
             ELSE ForLoop(dict, position + 1, all, names, tasks)

\* the while loop from the dictionary dict on: the dictionary it ends with
RECURSIVE WhileLoop(_, _, _)
WhileLoop(dict, names, tasks) ==
    LET pass == ForLoop(dict, 1, TRUE, names, tasks)
    IN  IF pass.all_primitive THEN pass.expr_dict
        ELSE WhileLoop(pass.expr_dict, names, tasks)

\* the outcome of the scan of one token by the primitive collector:
\* "ValueError" when token.split('.') does not unpack into two values,
\* "skip" for a token outside defined_names, "AssertionError" when the
\* assertion fails, "add" when nlpql_feature is added to primitives
NlpqlFeature(token) ==
    IF DotCount(token) > 0 THEN BeforeDot(token) ELSE token

\* the scan of one token without the assertion
ScanTokenNoAssert(token, names, tasks) ==
    IF DotCount(token) > 1 THEN "ValueError"
    ELSE IF token \notin names THEN "skip"
    ELSE "add"

ScanToken(token, names, tasks) ==
    IF DotCount(token) > 1 THEN "ValueError"
    ELSE IF token \notin names THEN "skip"
    ELSE IF NlpqlFeature(token) \notin tasks THEN "AssertionError"
    ELSE "add"

\* all tokens of all bodies in scan order
RECURSIVE AllTokens(_)
AllTokens(dict) ==
    IF dict = << >> THEN << >>
    ELSE Split(Head(dict)[2]) \o AllTokens(Tail(dict))

\* the scan of the primitive collector over the tokens: the first failure,
\* or the set of primitives
ScanTokens(tokens, names, tasks) ==
    LET failing == {k \in 1..Len(tokens) :
                      ScanToken(tokens[k], names, tasks)
                         \in {"ValueError", "AssertionError"}}
        stop    == IF failing = {} THEN Len(tokens) + 1 ELSE Least(failing)
    IN  [error |-> IF failing = {} THEN ""
                   ELSE ScanToken(tokens[stop], names, tasks),
         primitives |-> {NlpqlFeature(tokens[k]) :
                           k \in {j \in 1..(stop - 1) :
                                    ScanToken(tokens[j], names, tasks) = "add"}}]

\* ------------------------------------------------------------------------
\* The definition files given to _parse_file
\* ------------------------------------------------------------------------

\* the most statements of a file built from Statements
MaxStatements == 3

\* the longest expression body, in characters, with which a run of the
\* while loop of _reduce_expressions is followed
MaxLength == 32

\* the most passes of that while loop that are followed
MaxPasses == 6

Contexts ==
    {"", "context patient;\n", "Context patient;\n",
     "context patient; context document;\n"}

Statements ==
    {"define X: m;\n",
     "Define final X: m;\n",
     "define A: where X;\n",
     "DEFINE FINAL A: WHERE X.v >= 100.4;\n",
     "define X: where A;\n",
     "// define A: where X;\n",
     "define B: where 1.2.3 ;",
     "define X.v: where X.v;\n"}

\* a context part followed by at most MaxStatements statements
StatementFiles ==
    {c \o Concat(q) : c \in Contexts,
                      q \in UNION {[1..n -> Statements] : n \in 0..MaxStatements}}

TaskNames == {"X", "Y"}
ExprNames == {"A", "B", "C"}

Bodies == {"X", "Y", "A", "B", "C", "B AND C", "X.v", "B.v"}

ExprStatement(name, body) == "define " \o name \o ": where " \o body \o ";\n"

\* the tasks X and Y, then expressions named from ExprNames in every
\* declaration order, with every choice of bodies
ExpressionFiles ==
    UNION {{"context patient;\ndefine X: m;\ndefine Y: m;\n"
              \o Concat([k \in DOMAIN o |-> ExprStatement(o[k], b[k])]) :
            b \in [DOMAIN o -> Bodies]} :
           o \in UNION {Orderings(S) : S \in SUBSET ExprNames}}

Scenario1 ==
    "context patient; define final hasFever: where Temperature.value >= 100.4; "
       \o "define Temperature: measured;"

\* the last lines of a file that ends in a comment, or holds one with
\* nothing after the marker
CommentLines ==
    {"// define A: where X;",
     "// define A: where X;\n",
     "define Y: m; // define X: m;",
     "//",
     "//\ndefine A: where X;\n",
     "//\n// define A: where X;\n",
     "// context document;\ndefine A: where X; // define A: where Y;\n"}

CommentFiles ==
    {c \o "define X: m;\n" \o l : c \in {"", "context patient;\n"},
                                    l \in CommentLines}

Files == StatementFiles \cup ExpressionFiles \cup CommentFiles \cup {Scenario1}

\* ------------------------------------------------------------------------
\* State
\* ------------------------------------------------------------------------

VARIABLES
    infile,           \* the content of the file at filepath
    run,              \* the calls of _reduce_expressions begun or to begin
    record,           \* the FileData given to _reduce_expressions: "parsed",
                      \* the one _parse_file has constructed, or "fresh"
    main,             \* __main__: name_list, and the calls of delete_many
                      \* and of _run_tests so far
    evaluation,       \* _evaluate_expressions: arguments and locals
    banner,           \* banner_print: argument, locals and lines printed
    self_tests,       \* run_self_tests: arguments, calls made, return value
    pc,               \* the place of the program
    text,             \* _parse_file: text
    context,          \* _parse_file: context
    expression_dict,  \* _parse_file: expression_dict
    task_list,        \* _parse_file: task_list
    stdout,           \* the message printed before sys.exit
    file_data,        \* the FileData namedtuple
    expr_dict,        \* _reduce_expressions: expr_dict
    all_primitive,    \* _reduce_expressions: all_primitive
    position,         \* _reduce_expressions: the place of the for loop in expr_dict
    passes,           \* the passes of the while loop begun so far
    primitives        \* _reduce_expressions: primitives

vars == <<infile, run, record, main, evaluation, banner, self_tests, pc,
          text, context, expression_dict,
          task_list, stdout,
          file_data, expr_dict, all_primitive, position, passes, primitives>>

\* the state outside _parse_file and _reduce_expressions
tool_vars == <<main, evaluation, banner, self_tests>>

\* _evaluate_expressions, banner_print and run_self_tests not called
NotCalled == "not called"

\* __main__ before the call of _parse_file: name_list = None
MainStart ==
    [name_list |-> << >>, delete_many |-> << >>, run_tests |-> << >>]

parse_vars == <<text, context, expression_dict, task_list, stdout>>

reduce_vars == <<expr_dict, all_primitive, position, passes, primitives>>

\* file_data before the FileData(...) call
NoFileData ==
    [context |-> "", names |-> << >>, tasks |-> << >>, primitives |-> << >>,
     expressions |-> << >>, reduced_expressions |-> << >>]

Init ==
    /\ infile \in Files
    /\ run = 1
    /\ record = "parsed"
    /\ main = MainStart
    /\ evaluation = NotCalled
    /\ banner = NotCalled
    /\ self_tests = NotCalled
    /\ pc = "read"
    /\ text = ""
    /\ context = ""
    /\ expression_dict = << >>
    /\ task_list = << >>
    /\ stdout = ""
    /\ file_data = NoFileData
    /\ expr_dict = << >>
    /\ all_primitive = FALSE
    /\ position = 0
    /\ passes = 0
    /\ primitives = {}

\* ------------------------------------------------------------------------
\* _parse_file
\* ------------------------------------------------------------------------

\* read the file, strip comments, replace newlines, collapse whitespace
ReadText ==
    /\ pc = "read"
    /\ text' = NormalizeText(infile)
    /\ pc' = "context"
    /\ UNCHANGED <<tool_vars, infile, run, record>>
    /\ UNCHANGED <<context, expression_dict, task_list, stdout,
                   file_data>>
    /\ UNCHANGED reduce_vars

\* extract the context, going on without one when the search fails
ExtractContextNoExit ==
    /\ pc = "context"
    /\ context' = Strip(ContextSearch(text).expr)
    /\ pc' = "expressions"
    /\ UNCHANGED <<tool_vars, infile, run, record>>
    /\ UNCHANGED <<text, expression_dict, task_list, stdout, file_data>>
    /\ UNCHANGED reduce_vars

\* extract the context
ExtractContext ==
    /\ pc = "context"
    /\ LET match == ContextSearch(text)
       IN  IF match.ok
           THEN /\ context' = Strip(match.expr)
                /\ pc' = "expressions"
                /\ UNCHANGED stdout
           ELSE /\ stdout' = ContextNotFound
                /\ pc' = "sys.exit"
                /\ UNCHANGED context
    /\ UNCHANGED <<tool_vars, infile, run, record>>
    /\ UNCHANGED <<text, expression_dict, task_list, file_data>>
    /\ UNCHANGED reduce_vars

\* extract expression definitions
ExtractExpressions ==
    /\ pc = "expressions"
    /\ LET loop == ExpressionLoop(ExprFindIter(text), << >>)
       IN  /\ expression_dict' = loop.dict
           /\ IF loop.found
              THEN /\ stdout' = MultipleDefinitions(loop.dup)
                   /\ pc' = "sys.exit"
              ELSE /\ pc' = "tasks"
                   /\ UNCHANGED stdout
    /\ UNCHANGED <<tool_vars, infile, run, record>>
    /\ UNCHANGED <<text, context, task_list, file_data>>
    /\ UNCHANGED reduce_vars

\* extract task definitions
ExtractTasks ==
    /\ pc = "tasks"
    /\ LET loop == TaskLoop(TaskFindIter(text), << >>)
       IN  /\ task_list' = loop.list
           /\ IF loop.found
              THEN /\ stdout' = MultipleDefinitions(loop.dup)
                   /\ pc' = "sys.exit"
              ELSE /\ pc' = "check"
                   /\ UNCHANGED stdout
    /\ UNCHANGED <<tool_vars, infile, run, record>>
    /\ UNCHANGED <<text, context, expression_dict, file_data>>
    /\ UNCHANGED reduce_vars

\* check task names to ensure not also an expression name
CheckTaskNames ==
    /\ pc = "check"
    /\ LET clashes == TaskNameClashes(task_list, expression_dict)
       IN  IF clashes # {}
           THEN /\ stdout' = MultipleDefinitions(task_list[Least(clashes)])
                /\ pc' = "sys.exit"
           ELSE /\ pc' = "build"
                /\ UNCHANGED stdout
    /\ UNCHANGED <<tool_vars, infile, run, record>>
    /\ UNCHANGED <<text, context, expression_dict, task_list,
                   file_data>>
    /\ UNCHANGED reduce_vars

\* the list of all names built with the expression names first
BuildFileDataExpressionsFirst ==
    /\ pc = "build"
    /\ LET name_list ==
               [k \in DOMAIN expression_dict |-> expression_dict[k][1]]
                  \o task_list
       IN  file_data' = [context |-> context,
                         names |-> name_list,
                         primitives |-> << >>,
                         tasks |-> task_list,
                         reduced_expressions |-> << >>,
                         expressions |-> expression_dict]
    /\ pc' = "reduce"
    /\ UNCHANGED <<tool_vars, infile, run, record>>
    /\ UNCHANGED parse_vars
    /\ UNCHANGED reduce_vars

\* build list of all names and the FileData
BuildFileData ==
    /\ pc = "build"
    /\ LET name_list ==
               task_list \o [k \in DOMAIN expression_dict |->
                               expression_dict[k][1]]
       IN  file_data' = [context |-> context,
                         names |-> name_list,
                         primitives |-> << >>,
                         tasks |-> task_list,
                         reduced_expressions |-> << >>,
                         expressions |-> expression_dict]
    /\ pc' = "reduce"
    /\ UNCHANGED <<tool_vars, infile, run, record>>
    /\ UNCHANGED parse_vars
    /\ UNCHANGED reduce_vars

\* ------------------------------------------------------------------------
\* _reduce_expressions
\* ------------------------------------------------------------------------

task_names == ToSet(file_data.tasks)

defined_names == ToSet(file_data.names)

\* the sets of names and the working dictionary, in declaration order
ReduceEnter ==
    /\ pc = "reduce"
    /\ expr_dict' = file_data.expressions
    /\ all_primitive' = FALSE
    /\ pc' = "while"
    /\ UNCHANGED <<tool_vars, infile, run, record>>
    /\ UNCHANGED <<file_data, position, passes, primitives>>
    /\ UNCHANGED parse_vars

\* while not all_primitive: begin the next pass
WhileEnter ==
    /\ pc = "while"
    /\ ~all_primitive
    /\ passes < MaxPasses
    /\ all_primitive' = TRUE
    /\ position' = 1
    /\ passes' = passes + 1
    /\ pc' = "for"
    /\ UNCHANGED <<tool_vars, infile, run, record>>
    /\ UNCHANGED <<file_data, expr_dict, primitives>>
    /\ UNCHANGED parse_vars

\* while not all_primitive: leave the loop
WhileLeave ==
    /\ pc = "while"
    /\ all_primitive
    /\ pc' = "scan"
    /\ UNCHANGED <<tool_vars, infile, run, record>>
    /\ UNCHANGED <<file_data>>
    /\ UNCHANGED reduce_vars
    /\ UNCHANGED parse_vars

\* the run is followed through the body of the for loop for the expression
\* at position k: the body that the step leaves is no longer than MaxLength
WithinLength(k) ==
    LET expr_name == expr_dict[k][1]
        tokens    == Split(expr_dict[k][2])
    IN  IsComposite(tokens, expr_name, defined_names, task_names, expr_dict)
          => Len(Join(SubstituteTokens(tokens, expr_name, defined_names,
                                       task_names, expr_dict))) <= MaxLength

\* the body of the for loop without the assignment all_primitive = False
ForBodySinglePass ==
    /\ pc = "for"
    /\ position <= Len(expr_dict)
    /\ WithinLength(position)
    /\ LET expr_name == expr_dict[position][1]
           tokens    == Split(expr_dict[position][2])
       IN  IF IsComposite(tokens, expr_name, defined_names, task_names,
                          expr_dict)
           THEN expr_dict' =
                   [expr_dict EXCEPT
                      ![position] =
                         <<expr_name,
                           Join(SubstituteTokens(tokens, expr_name,
                                                 defined_names, task_names,
                                                 expr_dict))>>]
           ELSE UNCHANGED expr_dict
    /\ position' = position + 1
    /\ UNCHANGED <<tool_vars, infile, run, record>>
    /\ UNCHANGED <<pc, file_data, all_primitive, passes, primitives>>
    /\ UNCHANGED parse_vars

\* the body of the for loop for the expression at position
ForBody ==
    /\ pc = "for"
    /\ position <= Len(expr_dict)
    /\ WithinLength(position)
    /\ LET expr_name == expr_dict[position][1]
           expr_def  == expr_dict[position][2]
           tokens    == Split(expr_def)
           is_composite ==
               IsComposite(tokens, expr_name, defined_names, task_names,
                           expr_dict)
           new_tokens ==
               SubstituteTokens(tokens, expr_name, defined_names, task_names,
                                expr_dict)
       IN  IF is_composite
           THEN /\ expr_dict' = [expr_dict EXCEPT
                                   ![position] = <<expr_name, Join(new_tokens)>>]
                /\ all_primitive' = FALSE
           ELSE UNCHANGED <<expr_dict, all_primitive>>
    /\ position' = position + 1
    /\ UNCHANGED <<tool_vars, infile, run, record>>
    /\ UNCHANGED <<pc, file_data, passes, primitives>>
    /\ UNCHANGED parse_vars

\* the for loop has run over every expression
ForLeave ==
    /\ pc = "for"
    /\ position > Len(expr_dict)
    /\ pc' = "while"
    /\ UNCHANGED <<tool_vars, infile, run, record>>
    /\ UNCHANGED <<file_data>>
    /\ UNCHANGED reduce_vars
    /\ UNCHANGED parse_vars

\* scan RHS of each expression and ensure expressed entirely in primitives
ScanPrimitives ==
    /\ pc = "scan"
    /\ LET scan == ScanTokens(AllTokens(expr_dict), defined_names, task_names)
       IN  /\ primitives' = scan.primitives
           /\ pc' = IF scan.error = "" THEN "record" ELSE scan.error
    /\ UNCHANGED <<tool_vars, infile, run, record>>
    /\ UNCHANGED <<file_data, expr_dict, all_primitive, position, passes>>
    /\ UNCHANGED parse_vars

\* reduced_expressions and primitives appended to without the assertions
RecordResultsNoAssert ==
    /\ pc = "record"
    /\ \E order \in Orderings(primitives) :
          file_data' = [file_data EXCEPT
                          !.reduced_expressions = @ \o expr_dict,
                          !.primitives = @ \o order]
    /\ pc' = "return"
    /\ UNCHANGED <<tool_vars, infile, run, record>>
    /\ UNCHANGED reduce_vars
    /\ UNCHANGED parse_vars

\* reduced_expressions filled with the bodies of file_data.expressions
RecordResultsUnreduced ==
    /\ pc = "record"
    /\ \E order \in Orderings(primitives) :
          file_data' = [file_data EXCEPT
                          !.reduced_expressions = file_data.expressions,
                          !.primitives = order]
    /\ pc' = "return"
    /\ UNCHANGED <<tool_vars, infile, run, record>>
    /\ UNCHANGED reduce_vars
    /\ UNCHANGED parse_vars

\* reduced_expressions filled from the last entry of expr_dict to the first
RecordResultsReversed ==
    /\ pc = "record"
    /\ \E order \in Orderings(primitives) :
          file_data' = [file_data EXCEPT
                          !.reduced_expressions =
                              [k \in DOMAIN expr_dict |->
                                 expr_dict[Len(expr_dict) + 1 - k]],
                          !.primitives = order]
    /\ pc' = "return"
    /\ UNCHANGED <<tool_vars, infile, run, record>>
    /\ UNCHANGED reduce_vars
    /\ UNCHANGED parse_vars

\* the reduced bodies written over the expressions of file_data as well
RecordResultsInPlace ==
    /\ pc = "record"
    /\ IF /\ 0 = Len(file_data.reduced_expressions)
          /\ Len(expr_dict) = Len(file_data.expressions)
          /\ 0 = Len(file_data.primitives)
       THEN /\ \E order \in Orderings(primitives) :
                  file_data' = [file_data EXCEPT
                                  !.expressions = expr_dict,
                                  !.reduced_expressions = expr_dict,
                                  !.primitives = order]
            /\ pc' = "return"
       ELSE /\ pc' = "AssertionError"
            /\ UNCHANGED file_data
    /\ UNCHANGED <<tool_vars, infile, run, record>>
    /\ UNCHANGED reduce_vars
    /\ UNCHANGED parse_vars

\* fill reduced_expressions and primitives of file_data; the set primitives
\* is iterated in an order the run does not fix
RecordResults ==
    /\ pc = "record"
    /\ IF /\ 0 = Len(file_data.reduced_expressions)
          /\ Len(expr_dict) = Len(file_data.expressions)
          /\ 0 = Len(file_data.primitives)
       THEN /\ \E order \in Orderings(primitives) :
                  file_data' = [file_data EXCEPT
                                  !.reduced_expressions = expr_dict,
                                  !.primitives = order]
            /\ pc' = "return"
       ELSE /\ pc' = "AssertionError"
            /\ UNCHANGED file_data
    /\ UNCHANGED <<tool_vars, infile, run, record>>
    /\ UNCHANGED reduce_vars
    /\ UNCHANGED parse_vars

\* the reducer is called once more, on a fresh FileData that has the names,
\* the tasks and the context of the one handed back and its
\* reduced_expressions as expressions
ReduceReduced ==
    /\ pc = "return"
    /\ run = 1
    /\ run' = 2
    /\ file_data' = [context |-> file_data.context,
                     names |-> file_data.names,
                     primitives |-> << >>,
                     tasks |-> file_data.tasks,
                     reduced_expressions |-> << >>,
                     expressions |-> file_data.reduced_expressions]
    /\ pc' = "reduce"
    /\ expr_dict' = << >>
    /\ all_primitive' = FALSE
    /\ position' = 0
    /\ passes' = 0
    /\ primitives' = {}
    /\ record' = "fresh"
    /\ UNCHANGED <<tool_vars, infile>>
    /\ UNCHANGED parse_vars

\* the reducer is called once more on the FileData it has handed back
ReduceAgain ==
    /\ pc = "return"
    /\ run = 1
    /\ run' = 2
    /\ pc' = "reduce"
    /\ expr_dict' = << >>
    /\ all_primitive' = FALSE
    /\ position' = 0
    /\ passes' = 0
    /\ primitives' = {}
    /\ UNCHANGED <<tool_vars, infile, record, file_data>>
    /\ UNCHANGED parse_vars

\* ------------------------------------------------------------------------
\* __main__ with the option -f, from the call of _parse_file on
\* ------------------------------------------------------------------------

\* name_list = file_data.names, and the loop that deletes the results of
\* every expression of the file
MainDeleteMany ==
    /\ pc = "return"
    /\ run = 1
    /\ main' = [main EXCEPT
                  !.name_list = file_data.names,
                  !.delete_many =
                      [k \in DOMAIN file_data.expressions |->
                         file_data.expressions[k][1]]]
    /\ pc' = "_run_tests"
    /\ UNCHANGED <<infile, run, record, file_data>>
    /\ UNCHANGED <<evaluation, banner, self_tests>>
    /\ UNCHANGED parse_vars
    /\ UNCHANGED reduce_vars

\* the loop that calls _run_tests for every expression of the file
MainRunTests ==
    /\ pc = "_run_tests"
    /\ main' = [main EXCEPT
                  !.run_tests =
                      [k \in DOMAIN file_data.expressions |->
                         [final_nlpql_feature |-> file_data.expressions[k][1],
                          command_line_expression |-> file_data.expressions[k][2],
                          context_var |-> file_data.context,
                          name_list |-> main.name_list]]]
    /\ pc' = "exit"
    /\ UNCHANGED <<infile, run, record, file_data>>
    /\ UNCHANGED <<evaluation, banner, self_tests>>
    /\ UNCHANGED parse_vars
    /\ UNCHANGED reduce_vars

Next ==
    \/ ReadText
    \/ ExtractContext
    \/ ExtractExpressions
    \/ ExtractTasks
    \/ CheckTaskNames
    \/ BuildFileData
    \/ ReduceEnter
    \/ WhileEnter
    \/ WhileLeave
    \/ ForBody
    \/ ForLeave
    \/ ScanPrimitives
    \/ RecordResults
    \/ ReduceReduced
    \/ ReduceAgain
    \/ MainDeleteMany
    \/ MainRunTests

Spec == Init /\ [][Next]_vars

\* ------------------------------------------------------------------------
\* _evaluate_expressions
\* ------------------------------------------------------------------------

\* no file is parsed
NoFile ==
    /\ infile = ""
    /\ run = 1
    /\ record = "parsed"
    /\ main = MainStart
    /\ text = ""
    /\ context = ""
    /\ expression_dict = << >>
    /\ task_list = << >>
    /\ stdout = ""
    /\ file_data = NoFileData
    /\ expr_dict = << >>
    /\ all_primitive = FALSE
    /\ position = 0
    /\ passes = 0
    /\ primitives = {}

file_vars == <<infile, run, record, main, file_data>>

MaxObjects == 3

\* ExpressionObject values: the text of a subexpression
ExpressionObjects == {"Temperature >= 100.4", "hasRigors"}

\* the lists of at most MaxObjects objects
ExpressionObjectLists ==
    UNION {[1..n -> ExpressionObjects] : n \in 0..MaxObjects}

ContextFields == {"subject", "report_id", "patient"}

\* the call _evaluate_expressions(expr_obj_list, ..., context_field, is_final)
EvaluateInit ==
    /\ NoFile
    /\ banner = NotCalled
    /\ self_tests = NotCalled
    /\ pc = "_evaluate_expressions"
    /\ \E list \in ExpressionObjectLists, cf \in ContextFields,
          final \in BOOLEAN :
          evaluation = [expr_obj_list |-> list, context_field |-> cf,
                        is_final |-> final, is_final_save |-> final,
                        index |-> 0, phenotype_info |-> << >>,
                        all_output_docs |-> << >>]

\* the assertion on context_field, all_output_docs = [], is_final_save
EvaluateEnter ==
    /\ pc = "_evaluate_expressions"
    /\ IF evaluation.context_field \in {"subject", "report_id"}
       THEN /\ evaluation' = [evaluation EXCEPT
                                !.all_output_docs = << >>,
                                !.is_final_save = evaluation.is_final,
                                !.index = 1]
            /\ pc' = "for expr_obj"
       ELSE /\ pc' = "AssertionError"
            /\ UNCHANGED evaluation
    /\ UNCHANGED <<banner, self_tests>>
    /\ UNCHANGED file_vars
    /\ UNCHANGED parse_vars
    /\ UNCHANGED reduce_vars

\* the 'is_final' flag only applies to the last subexpression
EvaluateFlag ==
    /\ pc = "for expr_obj"
    /\ evaluation.index <= Len(evaluation.expr_obj_list)
    /\ LET expr_obj_list == evaluation.expr_obj_list
           expr_obj == expr_obj_list[evaluation.index]
       IN  evaluation' =
             [evaluation EXCEPT
                !.is_final = IF expr_obj # expr_obj_list[Len(expr_obj_list)]
                             THEN FALSE
                             ELSE evaluation.is_final_save]
    /\ pc' = "phenotype_info"
    /\ UNCHANGED <<banner, self_tests>>
    /\ UNCHANGED file_vars
    /\ UNCHANGED parse_vars
    /\ UNCHANGED reduce_vars

\* PhenotypeInfo(is_final = is_final), the result documents made with it,
\* and all_output_docs.append
EvaluateSave ==
    /\ pc = "phenotype_info"
    /\ LET expr_obj == evaluation.expr_obj_list[evaluation.index]
           phenotype_info == [context_field |-> evaluation.context_field,
                              is_final |-> evaluation.is_final]
       IN  evaluation' =
             [evaluation EXCEPT
                !.phenotype_info = phenotype_info,
                !.all_output_docs =
                    Append(@, [expr_obj |-> expr_obj,
                               output_docs |-> phenotype_info]),
                !.index = @ + 1]
    /\ pc' = "for expr_obj"
    /\ UNCHANGED <<banner, self_tests>>
    /\ UNCHANGED file_vars
    /\ UNCHANGED parse_vars
    /\ UNCHANGED reduce_vars

\* return all_output_docs
EvaluateReturn ==
    /\ pc = "for expr_obj"
    /\ evaluation.index > Len(evaluation.expr_obj_list)
    /\ pc' = "return all_output_docs"
    /\ UNCHANGED <<evaluation, banner, self_tests>>
    /\ UNCHANGED file_vars
    /\ UNCHANGED parse_vars
    /\ UNCHANGED reduce_vars

EvaluateNext ==
    \/ EvaluateEnter
    \/ EvaluateFlag
    \/ EvaluateSave
    \/ EvaluateReturn

SpecEvaluate == EvaluateInit /\ [][EvaluateNext]_vars

\* ------------------------------------------------------------------------
\* banner_print
\* ------------------------------------------------------------------------

MIN_WIDTH == 79

MaxMessage == 82

\* s * k: the empty string for k <= 0
Times(s, k) == Concat([j \in 1..k |-> s])

\* the messages of 0 to MaxMessage characters
Messages == {Times("m", n) : n \in 0..MaxMessage}

\* the call banner_print(msg)
BannerInit ==
    /\ NoFile
    /\ evaluation = NotCalled
    /\ self_tests = NotCalled
    /\ pc = "banner_print"
    /\ \E msg \in Messages :
          banner = [msg |-> msg, n |-> 0, ws_left |-> 0, ws_right |-> 0,
                    star_count |-> 0, printed |-> << >>]

\* n, ws, ws_left, ws_right and star_count
BannerWidths ==
    /\ pc = "banner_print"
    /\ LET n  == Len(banner.msg)
           ws == IF n < MIN_WIDTH THEN (MIN_WIDTH - 2 - n) \div 2 ELSE 1
           ws_left  == ws
           ws_right == IF 0 = n % 2 THEN ws + 1 ELSE ws
       IN  banner' = [banner EXCEPT
                        !.n = n,
                        !.ws_left = ws_left,
                        !.ws_right = ws_right,
                        !.star_count = 1 + ws_left + n + ws_right + 1]
    /\ pc' = "print"
    /\ UNCHANGED <<evaluation, self_tests>>
    /\ UNCHANGED file_vars
    /\ UNCHANGED parse_vars
    /\ UNCHANGED reduce_vars

\* the first and the fifth print: the line of stars
BannerPrintStars ==
    /\ pc = "print"
    /\ Len(banner.printed) \in {0, 4}
    /\ banner' = [banner EXCEPT
                     !.printed = Append(@, Times("*", banner.star_count))]
    /\ pc' = IF Len(banner.printed) = 4 THEN "printed" ELSE "print"
    /\ UNCHANGED <<evaluation, self_tests>>
    /\ UNCHANGED file_vars
    /\ UNCHANGED parse_vars
    /\ UNCHANGED reduce_vars

\* the second and the fourth print: a star, spaces, a star
BannerPrintSpaces ==
    /\ pc = "print"
    /\ Len(banner.printed) \in {1, 3}
    /\ banner' = [banner EXCEPT
                     !.printed =
                         Append(@, "*" \o Times(" ", banner.star_count - 2)
                                       \o "*")]
    /\ UNCHANGED <<evaluation, self_tests, pc>>
    /\ UNCHANGED file_vars
    /\ UNCHANGED parse_vars
    /\ UNCHANGED reduce_vars

\* the third print: the message between its spaces
BannerPrintMessage ==
    /\ pc = "print"
    /\ Len(banner.printed) = 2
    /\ banner' = [banner EXCEPT
                     !.printed =
                         Append(@, "*" \o Times(" ", banner.ws_left)
                                       \o banner.msg
                                       \o Times(" ", banner.ws_right) \o "*")]
    /\ UNCHANGED <<evaluation, self_tests, pc>>
    /\ UNCHANGED file_vars
    /\ UNCHANGED parse_vars
    /\ UNCHANGED reduce_vars

BannerNext ==
    \/ BannerWidths
    \/ BannerPrintStars
    \/ BannerPrintSpaces
    \/ BannerPrintMessage

SpecBanner == BannerInit /\ [][BannerNext]_vars

\* ------------------------------------------------------------------------
\* run_self_tests
\* ------------------------------------------------------------------------

\* the test groups in the order of their calls
TestGroups ==
    <<"_test_basic_expressions",
      "_test_pure_math_expressions",
      "_test_math_with_multiple_features",
      "_test_pure_logic_expressions",
      "_test_mixed_math_and_logic_expressions",
      "_test_not_with_positive_logic",
      "_test_set_relations_1">>

\* what mongoimport writes to stdout
ImportOutputs == {"", "Failed: error connecting to db server"}

ContextVars == {"patient", "Document", "encounter"}

\* the call run_self_tests(job_id, context_var, mongohost, mongoport):
\* results[k] is what the k-th test group returns when called
SelfTestsInit ==
    /\ NoFile
    /\ evaluation = NotCalled
    /\ banner = NotCalled
    /\ pc = "run_self_tests"
    /\ \E out \in ImportOutputs, cv \in ContextVars,
          results \in [DOMAIN TestGroups -> BOOLEAN] :
          self_tests = [cp_stdout |-> out, context_var |-> cv, cf |-> "",
                        results |-> results, called |-> << >>,
                        dropped |-> << >>, printed |-> ""]

\* subprocess.run(mongoimport ...), and return False when it wrote to stdout
SelfTestsImport ==
    /\ pc = "run_self_tests"
    /\ IF 0 # Len(self_tests.cp_stdout)
       THEN /\ self_tests' = [self_tests EXCEPT !.printed = self_tests.cp_stdout]
            /\ pc' = "return False"
       ELSE /\ pc' = "context_var"
            /\ UNCHANGED self_tests
    /\ UNCHANGED <<evaluation, banner>>
    /\ UNCHANGED file_vars
    /\ UNCHANGED parse_vars
    /\ UNCHANGED reduce_vars

\* must either be a patient or document context; the context field
SelfTestsContext ==
    /\ pc = "context_var"
    /\ LET context_var == LowerStr(self_tests.context_var)
       IN  IF context_var \in {"patient", "document"}
           THEN /\ self_tests' =
                      [self_tests EXCEPT
                         !.context_var = context_var,
                         !.cf = IF "patient" = context_var
                                THEN "subject" ELSE "report_id"]
                /\ pc' = "tests"
           ELSE /\ self_tests' = [self_tests EXCEPT !.context_var = context_var]
                /\ pc' = "AssertionError"
    /\ UNCHANGED <<evaluation, banner>>
    /\ UNCHANGED file_vars
    /\ UNCHANGED parse_vars
    /\ UNCHANGED reduce_vars

\* a test group called and never answered with return False
SelfTestsGroupGoOn ==
    /\ pc = "tests"
    /\ Len(self_tests.called) < Len(TestGroups)
    /\ self_tests' = [self_tests EXCEPT
                         !.called = Append(@, TestGroups[Len(@) + 1])]
    /\ UNCHANGED pc
    /\ UNCHANGED <<evaluation, banner>>
    /\ UNCHANGED file_vars
    /\ UNCHANGED parse_vars
    /\ UNCHANGED reduce_vars

\* if not _test_...(...): return False, for the next test group
SelfTestsGroup ==
    /\ pc = "tests"
    /\ Len(self_tests.called) < Len(TestGroups)
    /\ self_tests' = [self_tests EXCEPT
                         !.called = Append(@, TestGroups[Len(@) + 1])]
    /\ pc' = IF self_tests.results[Len(self_tests.called) + 1]
             THEN "tests" ELSE "return False"
    /\ UNCHANGED <<evaluation, banner>>
    /\ UNCHANGED file_vars
    /\ UNCHANGED parse_vars
    /\ UNCHANGED reduce_vars

\* drop the collection and database, return True
SelfTestsDrop ==
    /\ pc = "tests"
    /\ Len(self_tests.called) = Len(TestGroups)
    /\ self_tests' = [self_tests EXCEPT
                         !.dropped = <<"mongo_obj.drop", "drop_database">>]
    /\ pc' = "return True"
    /\ UNCHANGED <<evaluation, banner>>
    /\ UNCHANGED file_vars
    /\ UNCHANGED parse_vars
    /\ UNCHANGED reduce_vars

SelfTestsNext ==
    \/ SelfTestsImport
    \/ SelfTestsContext
    \/ SelfTestsGroup
    \/ SelfTestsDrop

SpecSelfTests == SelfTestsInit /\ [][SelfTestsNext]_vars

\* ------------------------------------------------------------------------
\* Notions the properties are stated in
\* ------------------------------------------------------------------------

\* _parse_file has handed the FileData back to its caller
Returned == pc = "return"

ExpressionNames == Keys(file_data.expressions)

RawBody(name) == Lookup(file_data.expressions, name)

\* the expression names that are tokens of the raw body of an expression
RefsOf(name) == {t \in ToSet(Split(RawBody(name))) : t \in ExpressionNames}

\* the reference graph over the expression names
References == [e \in ExpressionNames |-> RefsOf(e)]

\* the expressions reached in graph G from a set of expressions over at
\* most n references
RECURSIVE ReachedFrom(_, _, _)
ReachedFrom(G, S, n) ==
    IF n = 0 THEN S
    ELSE ReachedFrom(G, S \cup UNION {G[e] : e \in S}, n - 1)

ReachedIn(G, name) == ReachedFrom(G, G[name], Cardinality(DOMAIN G))

ReachedBy(name) == ReachedIn(References, name)

\* the reference graph has no cycle, a self-reference included
AcyclicReferences ==
    \E G \in {References} : \A e \in DOMAIN G : e \notin ReachedIn(G, e)

\* the macro expansion of an expression of an acyclic file: every token that
\* is another expression's name gives way to that expression's expansion in
\* parentheses
RECURSIVE Expansion(_)
Expansion(name) ==
    LET tokens == Split(RawBody(name))
    IN  Join([k \in 1..Len(tokens) |->
                IF tokens[k] \in ExpressionNames \ {name}
                THEN "( " \o Expansion(tokens[k]) \o " )"
                ELSE tokens[k]])

\* the tokens of all reduced bodies
ReducedTokens == ToSet(AllTokens(file_data.reduced_expressions))

\* the context statements of the normalised text
ContextStatements == {i \in 1..Len(text) : ContextMatchAt(text, i).ok}

\* the names of the expression and of the task statements of the
\* normalised text, in the order of the statements
Features(matches) == [k \in DOMAIN matches |-> Strip(matches[k].feature)]

DeclaredExpressions == Features(ExprFindIter(text))

DeclaredTasks == Features(TaskFindIter(text))

\* the names declared by two statements
Repeated(names) ==
    {names[i] : i \in {j \in DOMAIN names :
                         \E k \in DOMAIN names : k # j /\ names[k] = names[j]}}

MultiplyDeclared ==
    UNION {Repeated(e) \cup Repeated(t) \cup (ToSet(e) \cap ToSet(t)) :
           e \in {DeclaredExpressions}, t \in {DeclaredTasks}}

\* ------------------------------------------------------------------------
\* Properties
\* ------------------------------------------------------------------------

\* C1: in every FileData handed back, every token of a reduced body that is a
\* declared name is a task name.
C1_PrimitiveClosure ==
    Returned =>
        \A token \in ReducedTokens :
            token \in defined_names => token \in task_names

\* C2: for a file without reference cycles, the body of every expression at
\* the end of the while loop, and in reduced_expressions, is the macro
\* expansion of its raw body; for 'A: where B AND C; B: where X; C: where Y'
\* the body of A is '( X ) AND ( Y )' and the primitives are X and Y.
C2_FullInlining ==
    /\ (pc \in {"scan", "record"} /\ AcyclicReferences) =>
           expr_dict = [k \in DOMAIN file_data.expressions |->
                          <<file_data.expressions[k][1],
                            Expansion(file_data.expressions[k][1])>>]
    /\ (Returned /\ AcyclicReferences) =>
           file_data.reduced_expressions =
               [k \in DOMAIN file_data.expressions |->
                  <<file_data.expressions[k][1],
                    Expansion(file_data.expressions[k][1])>>]
    /\ (Returned /\ file_data.expressions =
                      <<<<"A", "B AND C">>, <<"B", "X">>, <<"C", "Y">>>>) =>
           /\ file_data.reduced_expressions[1] = <<"A", "( X ) AND ( Y )">>
           /\ ToSet(file_data.primitives) = {"X", "Y"}

\* a file with a chain of references A -> B -> C has been reduced and
\* handed back
C2_Witness ==
    /\ Returned
    /\ AcyclicReferences
    /\ \E e \in ExpressionNames : \E f \in RefsOf(e) : RefsOf(f) # {}
    /\ \E k \in DOMAIN file_data.expressions :
          file_data.reduced_expressions[k] # file_data.expressions[k]

\* C3: when the references of a file have no cycle, the while loop begins
\* no more passes than there are expressions plus one, every step of it is
\* followed (no pass and no body is beyond MaxPasses and MaxLength), and so
\* the loop is left; no token of any body is then an expression name.
C3_TerminationOnAcyclic ==
    /\ (pc \in {"while", "for"} /\ AcyclicReferences) =>
          /\ passes <= Cardinality(ExpressionNames) + 1
          /\ pc = "while" => (all_primitive \/ passes < MaxPasses)
          /\ (pc = "for" /\ position <= Len(expr_dict))
                => WithinLength(position)
    /\ (pc = "scan" /\ AcyclicReferences) =>
          \A token \in ToSet(AllTokens(expr_dict)) :
              token \notin ExpressionNames

\* the loop has been left after three passes over a file without cycles
C3_Witness ==
    /\ pc = "scan"
    /\ AcyclicReferences
    /\ passes = 3

\* the task names an expression refers to, in its own raw body or in the raw
\* body of an expression it reaches, bare or as the base of Name.field
NamedTasks(name) ==
    {t \in task_names :
        \E e \in {name} \cup ReachedBy(name) :
            \E token \in ToSet(Split(RawBody(e))) :
                \/ token = t
                \/ DotCount(token) = 1 /\ BeforeDot(token) = t}

\* C4: every task name that the raw body of an expression refers to,
\* directly or through the expressions it names, bare or as the base of a
\* Name.field token, is in primitives.
C4_PrimitivesComplete ==
    Returned =>
        \A e \in ExpressionNames : NamedTasks(e) \subseteq ToSet(file_data.primitives)

\* C5: the first scenario: tasks, expressions, reduced_expressions and
\* primitives of 'define final hasFever: where Temperature.value >= 100.4;
\* define Temperature: measured;'.
C5_Scenario1 ==
    (Returned /\ infile = Scenario1) =>
        /\ file_data.tasks = <<"Temperature">>
        /\ file_data.expressions =
              <<<<"hasFever", "Temperature.value >= 100.4">>>>
        /\ file_data.reduced_expressions = file_data.expressions
        /\ ToSet(file_data.primitives) = {"Temperature"}

\* C6: in every FileData handed back, the base of every Name.field token of
\* a reduced body, when it is a declared name, is a task name.
C6_QualifiedTokens ==
    Returned =>
        \A token \in ReducedTokens :
            (DotCount(token) = 1 /\ BeforeDot(token) \in defined_names)
                => BeforeDot(token) \in task_names

\* C7 as claimed: when a name is declared twice, the process exits after
\* reporting that name.
C7_ReportsEveryRepeatedName ==
    pc = "sys.exit" =>
        \A n \in MultiplyDeclared : stdout = MultipleDefinitions(n)

\* C7: no FileData is built from a text in which a name is declared twice;
\* the process exits, after reporting one of the names declared twice when
\* the text has a context statement, and from the context check when it has
\* none.
C7_DuplicateIsFatal ==
    /\ pc \in {"build", "reduce"} => MultiplyDeclared = {}
    /\ pc = "sys.exit" =>
          \E repeated \in {MultiplyDeclared} :
              repeated # {} =>
                 /\ file_data = NoFileData
                 /\ ContextStatements # {} =>
                       \E n \in repeated : stdout = MultipleDefinitions(n)
                 /\ ContextStatements = {} => stdout = ContextNotFound

\* the process has exited on a name that is declared once as a task and once
\* as an expression, and twice as neither
C7_Witness ==
    /\ pc = "sys.exit"
    /\ \E e \in {DeclaredExpressions} : \E t \in {DeclaredTasks} :
          /\ Repeated(e) = {}
          /\ Repeated(t) = {}
          /\ \E n \in ToSet(e) \cap ToSet(t) : stdout = MultipleDefinitions(n)

\* C8: a text without a context statement makes the process exit from the
\* context check, before any expression or task is extracted and without a
\* FileData.
C8_MissingContextIsFatal ==
    /\ pc \in {"expressions", "tasks", "check", "build", "reduce"} =>
          ContextStatements # {}
    /\ (pc = "sys.exit" /\ ContextStatements = {}) =>
          /\ stdout = ContextNotFound
          /\ expression_dict = << >>
          /\ task_list = << >>
          /\ file_data = NoFileData

\* the process has exited on a text that has expression and task statements
\* and no context statement
C8_Witness ==
    /\ pc = "sys.exit"
    /\ stdout = ContextNotFound
    /\ ContextStatements = {}
    /\ DeclaredExpressions # << >>
    /\ DeclaredTasks # << >>

\* C9: every text from which a FileData is handed back has exactly one
\* context statement.
C9_ExactlyOneContext ==
    Returned => Cardinality(ContextStatements) = 1

Keywords == {"context", "define", "final", "where"}

\* position j of s lies in an occurrence of a keyword in any letter case
InKeyword(s, j) ==
    \E kw \in Keywords : \E p \in (j - Len(kw) + 1)..j : StartsWithAtIC(s, p, kw)

\* s with every occurrence of a keyword in lower case
FoldKeywords(s) ==
    Concat([j \in 1..Len(s) |->
              IF InKeyword(s, j) THEN Lower(Ch(s, j)) ELSE Ch(s, j)])

\* what _parse_file extracts from a file, and whether it goes on to build
\* the FileData
ParseOutcome(f) ==
    LET t == NormalizeText(f)
        c == ContextSearch(t)
        e == ExpressionLoop(ExprFindIter(t), << >>)
        k == TaskLoop(TaskFindIter(t), << >>)
    IN  [accepted |-> /\ c.ok
                      /\ ~e.found
                      /\ ~k.found
                      /\ TaskNameClashes(k.list, e.dict) = {},
         context |-> Strip(c.expr),
         tasks |-> k.list,
         expressions |-> e.dict]

\* C10: a file whose keywords are in any letter case is accepted whenever the
\* file with the keywords in lower case is, with the same context, tasks and
\* expressions.
C10_KeywordCase ==
    pc \in {"build", "sys.exit"} =>
        \E lower \in {ParseOutcome(FoldKeywords(infile))} :
            lower.accepted =>
                /\ pc = "build"
                /\ context = lower.context
                /\ task_list = lower.tasks
                /\ expression_dict = lower.expressions

\* the text of a file from every '//' to the end of its line taken out, the
\* end of the text being the end of the last line
RECURSIVE WithoutComments(_)
WithoutComments(s) ==
    LET starts == {i \in 1..Len(s) : StartsWithAt(s, i, "//")}
        i      == Least(starts)
        nl     == FindFrom(s, {"\n"}, i)
    IN  IF starts = {} THEN s
        ELSE SubSeq(s, 1, i - 1) \o " "
                \o WithoutComments(SubSeq(s, nl, Len(s)))

\* C11: the normalised text of every file holds no comment marker, and what
\* is extracted from a file is what is extracted from the file without its
\* comments: no context, task or expression comes out of a comment.
C11_CommentRemovalTotal ==
    /\ pc # "read" => \A i \in 1..Len(text) : ~StartsWithAt(text, i, "//")
    /\ pc \in {"build", "sys.exit"} =>
          \E plain \in {ParseOutcome(WithoutComments(infile))} :
              /\ plain.accepted <=> pc = "build"
              /\ pc = "build" =>
                    /\ context = plain.context
                    /\ task_list = plain.tasks
                    /\ expression_dict = plain.expressions

\* the FileData has been constructed
Built ==
    pc \notin {"read", "context", "expressions", "tasks", "check", "build",
               "sys.exit"}

\* C12: in every FileData constructed, no name is twice in names, and no
\* task is the name of an expression.
C12_Uniqueness ==
    Built =>
        /\ \A i, j \in DOMAIN file_data.names :
               i # j => file_data.names[i] # file_data.names[j]
        /\ task_names \cap ExpressionNames = {}

\* a FileData with two tasks and two expressions has been handed back
C12_Witness ==
    /\ Returned
    /\ Len(file_data.tasks) >= 2
    /\ Len(file_data.expressions) >= 2

\* C13: names is the tasks in the order of the task statements of the text,
\* followed by the names of the expressions in the order of the expression
\* statements.
C13_NameListComposition ==
    pc \in {"reduce", "return"} =>
        \E expression_names \in {[k \in DOMAIN file_data.expressions |->
                                     file_data.expressions[k][1]]} :
            /\ file_data.names = file_data.tasks \o expression_names
            /\ file_data.tasks = DeclaredTasks
            /\ expression_names = DeclaredExpressions

\* a FileData has been constructed from a text whose first statement is an
\* expression and that has a task and a second expression after it
C13_Witness ==
    /\ pc = "reduce"
    /\ Len(file_data.tasks) >= 1
    /\ Len(file_data.expressions) >= 2
    /\ \E e \in {ExprFindIter(text)} : \E t \in {TaskFindIter(text)} :
          e[1].end < t[1].end

\* C14: when _reduce_expressions has returned, reduced_expressions is as long
\* as expressions and has, at every position, the name expressions has there.
C14_OrderPreservation ==
    Returned =>
        /\ Len(file_data.reduced_expressions) = Len(file_data.expressions)
        /\ \A k \in DOMAIN file_data.expressions :
               file_data.reduced_expressions[k][1] = file_data.expressions[k][1]

\* three expressions have been reduced, one of them to another body
C14_Witness ==
    /\ Returned
    /\ Len(file_data.expressions) = 3
    /\ file_data.reduced_expressions # file_data.expressions

\* C15: when _reduce_expressions has returned, every element of primitives is
\* a task, and no element is in primitives twice.
C15_PrimitivesAreTasks ==
    Returned =>
        /\ \A k \in DOMAIN file_data.primitives :
               file_data.primitives[k] \in ToSet(file_data.tasks)
        /\ \A i, j \in DOMAIN file_data.primitives :
               i # j => file_data.primitives[i] # file_data.primitives[j]

\* two primitives have been collected from bodies that name the same task
\* more than once
C15_Witness ==
    /\ Returned
    /\ Len(file_data.primitives) = 2
    /\ \E i, j \in DOMAIN file_data.reduced_expressions :
          /\ i # j
          /\ ToSet(Split(file_data.reduced_expressions[i][2]))
                \cap ToSet(Split(file_data.reduced_expressions[j][2]))
                \cap ToSet(file_data.tasks) # {}

\* C16: the reducer called on a fresh FileData whose expressions are the
\* reduced_expressions of a FileData handed back begins one pass, makes no
\* substitution in it, fails no assertion, and fills reduced_expressions
\* with the bodies it was given.
C16_Idempotence ==
    record = "fresh" =>
        /\ pc \in {"while", "for", "scan", "record"} =>
               /\ expr_dict = file_data.expressions
               /\ passes <= 1
               /\ passes = 1 => all_primitive
        /\ pc \notin {"AssertionError", "ValueError"}
        /\ Returned => file_data.reduced_expressions = file_data.expressions

\* the second call has returned for bodies that the first call had rewritten
C16_Witness ==
    /\ record = "fresh"
    /\ Returned
    /\ passes = 1
    /\ \E k \in DOMAIN file_data.expressions :
          "(" \in ToSet(Split(file_data.expressions[k][2]))

\* two expressions whose raw bodies each hold the name of the other as a token
TwoCycle ==
    \E a, b \in ExpressionNames :
        /\ a # b
        /\ b \in RefsOf(a)
        /\ a \in RefsOf(b)

\* some expression of expr_dict holds a token that the loop expands
SubstitutionAhead ==
    \E k \in DOMAIN expr_dict :
        IsComposite(Split(expr_dict[k][2]), expr_dict[k][1], defined_names,
                    task_names, expr_dict)

\* C17: when two expressions name each other, every pass of the while loop
\* ends with a substitution made and with a substitution ahead for the next
\* pass, the loop is never left, the scan is never reached, and
\* reduced_expressions and primitives stay empty.
C17_TwoCycleNeverTerminates ==
    (Built /\ TwoCycle) =>
        /\ pc \in {"reduce", "while", "for"}
        /\ file_data.reduced_expressions = << >>
        /\ file_data.primitives = << >>
        /\ (pc = "for" /\ position > Len(expr_dict)) => ~all_primitive
        /\ (pc = "while" /\ passes >= 1) =>
               /\ ~all_primitive
               /\ SubstitutionAhead

\* three passes over two expressions that name each other have ended, each
\* with a substitution
C17_Witness ==
    /\ pc = "while"
    /\ passes >= 3
    /\ ~all_primitive
    /\ Len(file_data.expressions) = 2
    /\ TwoCycle

\* some expression names another expression that lies on a cycle of
\* references, a self-reference being a cycle
ExpandedIntoCycle ==
    \E G \in {References} :
        \E e \in DOMAIN G : \E f \in G[e] \ {e} : f \in ReachedIn(G, f)

\* C18 as claimed: the while loop is never left for a file whose references
\* have a cycle of any length, a self-reference included.
C18_AnyCycleNeverHalts ==
    (Built /\ ~AcyclicReferences) => pc \in {"reduce", "while", "for"}

\* C18: the while loop is never left when some expression names another
\* expression that lies on a cycle (every pass then ends with a substitution
\* made and one ahead); for every other file, one whose only cycles are
\* self-references that no other expression names included, the loop begins
\* no more passes than there are expressions plus one, every step of it is
\* followed, and it is left.
C18_HaltsUnlessExpandedIntoCycle ==
    Built =>
        \E diverges \in {ExpandedIntoCycle} :
            /\ diverges =>
                  /\ pc \in {"reduce", "while", "for"}
                  /\ (pc = "for" /\ position > Len(expr_dict)) => ~all_primitive
                  /\ (pc = "while" /\ passes >= 1) =>
                         /\ ~all_primitive
                         /\ SubstitutionAhead
            /\ (~diverges /\ pc \in {"while", "for"}) =>
                  /\ passes <= Cardinality(ExpressionNames) + 1
                  /\ pc = "while" => (all_primitive \/ passes < MaxPasses)
                  /\ (pc = "for" /\ position <= Len(expr_dict))
                        => WithinLength(position)

\* the loop has been left after two passes over a file in which an
\* expression names itself
C18_Witness ==
    /\ pc = "scan"
    /\ passes >= 2
    /\ ~AcyclicReferences
    /\ ~ExpandedIntoCycle

\* the sum of the first n elements of a sequence of numbers
RECURSIVE SumTo(_, _)
SumTo(widths, n) == IF n = 0 THEN 0 ELSE widths[n] + SumTo(widths, n - 1)

\* the tokens of the body of the expression at position k that are declared
\* names, not tasks, and not the name of the expression
OtherNames(k) ==
    {j \in DOMAIN Split(expr_dict[k][2]) :
        /\ Split(expr_dict[k][2])[j] \in defined_names
        /\ Split(expr_dict[k][2])[j] \notin task_names
        /\ Split(expr_dict[k][2])[j] # expr_dict[k][1]}

\* the number of tokens that each token of the body of the expression at
\* position k becomes when the tokens of OtherNames give way to the bodies
\* they name, in parentheses
Widths(k) ==
    LET tokens == Split(expr_dict[k][2])
        others == OtherNames(k)
    IN  [j \in DOMAIN tokens |->
           IF j \in others
           THEN Len(Split(Lookup(expr_dict, tokens[j]))) + 2
           ELSE 1]

\* C19: in every step of the for loop, each token of the body that is the
\* name of the expression itself is still a token of the body after the
\* step, at the place the substitutions before it move it to; and when no
\* other token is a declared name that is not a task, the step changes
\* neither the body nor all_primitive.
C19_SelfReferenceUnexpanded ==
    [][(pc = "for" /\ position <= Len(expr_dict)) =>
          LET tokens == Split(expr_dict[position][2])
              widths == Widths(position)
              after  == Split(expr_dict'[position][2])
          IN  /\ \A i \in DOMAIN tokens :
                    tokens[i] = expr_dict[position][1] =>
                       /\ SumTo(widths, i) <= Len(after)
                       /\ after[SumTo(widths, i)] = tokens[i]
              /\ OtherNames(position) = {} =>
                    /\ expr_dict' = expr_dict
                    /\ all_primitive' = all_primitive]_vars

\* a step of the for loop has rewritten a body that holds the name of its
\* own expression after the name of another
C19_Witness ==
    /\ pc = "for"
    /\ \E k \in 1..(position - 1) :
          \E tokens \in {Split(expr_dict[k][2])} :
              \E i, j \in DOMAIN tokens :
                  /\ i < j
                  /\ tokens[i] = ")"
                  /\ tokens[j] = expr_dict[k][1]

\* C20: when the while loop has been left with a token of some body that is
\* a declared name and not a task, the scan fails its assertion: the run goes
\* on to fill reduced_expressions and primitives only without such a token,
\* and both are empty when an assertion has failed.
C20_SurvivingNameIsFatal ==
    /\ pc \in {"record", "return"} =>
          \A token \in ToSet(AllTokens(expr_dict)) :
              token \in defined_names => token \in task_names
    /\ pc = "AssertionError" =>
          /\ file_data.reduced_expressions = << >>
          /\ file_data.primitives = << >>

\* _reduce_expressions runs on the FileData of _parse_file
InReducer == pc \in {"reduce", "while", "for", "scan", "record"}

\* in the first call reduced_expressions and primitives are empty through
\* the while loop and the scan and filled when the call has returned; a
\* second call on the same FileData, with reduced_expressions not empty,
\* does not return
PopulatedAfterScan ==
    /\ (InReducer /\ run = 1) =>
          /\ file_data.reduced_expressions = << >>
          /\ file_data.primitives = << >>
    /\ (Returned /\ run = 1) =>
          /\ Len(file_data.reduced_expressions) = Len(file_data.expressions)
          /\ ToSet(file_data.primitives) = primitives
    /\ (run = 2 /\ record = "parsed" /\ file_data.reduced_expressions # << >>) =>
          pc \in {"reduce", "while", "for", "scan", "record", "AssertionError"}

\* the FileData of _parse_file changes only in the step that follows the
\* scan of the first call; that step of a call on a FileData with
\* reduced_expressions not empty fails the assertion and changes nothing
PopulatedOnce ==
    /\ (record' = "parsed" /\ Built /\ file_data' # file_data) =>
          /\ pc = "record"
          /\ run = 1
          /\ pc' = "return"
    /\ (pc = "record" /\ file_data.reduced_expressions # << >>) =>
          /\ pc' = "AssertionError"
          /\ file_data' = file_data

\* C21: reduced_expressions and primitives stay empty through the while loop
\* and the scan, are filled in the one step that follows them and changed by
\* no other step; a second call of _reduce_expressions on a FileData with
\* reduced_expressions not empty fails an assertion and leaves both as they
\* are.
C21_SinglePopulation == []PopulatedAfterScan /\ [][PopulatedOnce]_vars

\* the second call on a FileData with two reduced expressions has failed its
\* assertion
C21_Witness ==
    /\ pc = "AssertionError"
    /\ run = 2
    /\ record = "parsed"
    /\ Len(file_data.reduced_expressions) >= 2
    /\ file_data.primitives # << >>

\* _parse_file has ended in sys.exit(-1) or in an exception
Aborted == pc \in {"sys.exit", "AssertionError", "ValueError"}

\* __main__ has gone on after the call of _parse_file
MainProceeded == pc \in {"_run_tests", "exit"}

\* a token of a reduced body of the returned FileData is a declared name
\* and not a task
SurvivingNames ==
    {token \in ToSet(AllTokens(file_data.reduced_expressions)) :
        token \in ToSet(file_data.names) /\ token \notin ToSet(file_data.tasks)}

\* C22: a FileData reaches the caller only from a text with a context
\* statement and without a name declared twice, and only when no reduced
\* body holds a declared name that is not a task; when _parse_file ends in
\* sys.exit or in a failed assertion the caller has no name_list, has
\* deleted nothing and has called _run_tests for nothing, and what it
\* deletes and evaluates otherwise is the expressions of a FileData that is
\* filled.
C22_NoPartialResult ==
    /\ ((Returned /\ run = 1) \/ MainProceeded) => SurvivingNames = {}
    /\ Aborted => main = MainStart
    /\ (pc = "sys.exit" \/ (pc = "AssertionError" /\ run = 1)) =>
          /\ file_data.reduced_expressions = << >>
          /\ file_data.primitives = << >>
    /\ ((Returned /\ run = 1) \/ MainProceeded) =>
          /\ ContextStatements # {}
          /\ MultiplyDeclared = {}
          /\ Len(file_data.reduced_expressions) = Len(file_data.expressions)
    /\ MainProceeded =>
          /\ run = 1
          /\ main.name_list = file_data.names
          /\ main.delete_many = [k \in DOMAIN file_data.expressions |->
                                   file_data.expressions[k][1]]
    /\ main.run_tests # << >> =>
          /\ pc = "exit"
          /\ \A k \in DOMAIN main.run_tests :
                /\ main.run_tests[k].context_var = context
                /\ <<main.run_tests[k].final_nlpql_feature,
                      main.run_tests[k].command_line_expression>>
                      = expression_dict[k]

\* an expression of the file refers to one declared after it, and one to
\* one declared before it
ForwardReference ==
    \E j, k \in DOMAIN expression_dict :
        j < k /\ expression_dict[k][1] \in ToSet(Split(expression_dict[j][2]))

BackwardReference ==
    \E j, k \in DOMAIN expression_dict :
        j < k /\ expression_dict[j][1] \in ToSet(Split(expression_dict[k][2]))

\* the expressions of the file in the order o of their positions
Permuted(o) == [k \in DOMAIN o |-> expression_dict[o[k]]]

\* C23: for a file without a cycle of references, the bodies
\* _reduce_expressions has recorded are those the while loop ends with, and
\* the while loop run on the same declarations in any other order ends with
\* the same body for each expression.
C23_OrderIndependence ==
    (Returned /\ run = 1 /\ AcyclicReferences) =>
        /\ WhileLoop(file_data.expressions, defined_names, task_names)
              = file_data.reduced_expressions
        /\ \A o \in Orderings(DOMAIN expression_dict) :
              \E other \in {WhileLoop(Permuted(o), defined_names, task_names)} :
                 \A name \in ExpressionNames :
                    Lookup(other, name)
                      = Lookup(file_data.reduced_expressions, name)

\* three expressions have been reduced, one referring forward and one
\* referring backward
C23_Witness ==
    /\ Returned
    /\ run = 1
    /\ AcyclicReferences
    /\ Len(expression_dict) = 3
    /\ ForwardReference
    /\ BackwardReference
    /\ file_data.reduced_expressions # file_data.expressions

\* the tokens of the bodies the scan runs over that are declared names
DeclaredTokens ==
    {token \in ToSet(AllTokens(expr_dict)) : token \in defined_names}

\* C24: the scan of the primitive collector does not fail on a token that
\* is not a declared name, whatever the number of '.' in it, and adds
\* nothing for it: a scan that ends in ValueError has met a declared name
\* with two or more '.', a scan that ends in AssertionError has met a
\* declared name, and primitives holds nothing but the part before the dot
\* of declared names.
C24_NonNamesInert ==
    /\ pc = "ValueError" =>
          \E token \in DeclaredTokens : DotCount(token) >= 2
    /\ (pc = "AssertionError" /\ run = 1) => DeclaredTokens # {}
    /\ pc \in {"record", "return"} =>
          primitives \subseteq {NlpqlFeature(token) : token \in DeclaredTokens}

\* C25: when _evaluate_expressions has returned, the element saved last
\* carries the is_final of the call, and every element saved before it
\* carries is_final false, an element equal to the last one included.
C25_FinalFlagOnLast ==
    pc = "return all_output_docs" =>
        /\ Len(evaluation.all_output_docs) = Len(evaluation.expr_obj_list)
        /\ \A k \in DOMAIN evaluation.all_output_docs :
              /\ evaluation.all_output_docs[k].expr_obj
                    = evaluation.expr_obj_list[k]
              /\ evaluation.all_output_docs[k].output_docs.is_final
                    = (evaluation.is_final_save
                         /\ k = Len(evaluation.expr_obj_list))

\* C26: when banner_print has printed its five lines, each of them is
\* star_count characters long, ws_left and ws_right are not negative and
\* differ by at most one, and star_count is 79 for a message shorter than
\* 79 characters.
C26_BannerGeometry ==
    pc = "printed" =>
        /\ Len(banner.printed) = 5
        /\ \A k \in 1..5 : Len(banner.printed[k]) = banner.star_count
        /\ banner.ws_left >= 0
        /\ banner.ws_right >= 0
        /\ banner.ws_right - banner.ws_left \in {0, 1}
        /\ banner.n < MIN_WIDTH => banner.star_count = MIN_WIDTH

\* run_self_tests has returned or raised
SelfTestsEnded == pc \in {"return True", "return False", "AssertionError"}

\* every test group has been called and has returned True
AllGroupsTrue ==
    /\ self_tests.called = TestGroups
    /\ \A k \in DOMAIN TestGroups : self_tests.results[k]

HoldsTheFile ==
    (record = "parsed" /\ (InReducer \/ Returned \/ MainProceeded)) =>
        /\ file_data.context = context
        /\ file_data.tasks = task_list
        /\ file_data.expressions = expression_dict
        /\ file_data.names
              = task_list \o [k \in DOMAIN expression_dict |->
                                expression_dict[k][1]]

\* a step of _reduce_expressions leaves context, names, tasks and
\* expressions of its FileData as they are
FrameKept ==
    InReducer =>
        /\ file_data'.context = file_data.context
        /\ file_data'.names = file_data.names
        /\ file_data'.tasks = file_data.tasks
        /\ file_data'.expressions = file_data.expressions

\* C28: no step of _reduce_expressions changes context, names, tasks or
\* expressions of the FileData it is given, and after it has returned the
\* expressions of the FileData of _parse_file are the bodies captured from
\* the file, where the reduced body differs as well.
C28_ReducerFrame == []HoldsTheFile /\ [][FrameKept]_vars

\* the reducer has returned a FileData of the file with an expression whose
\* reduced body has parentheses that its body in expressions has not
C28_Witness ==
    /\ Returned
    /\ record = "parsed"
    /\ file_data.expressions = expression_dict
    /\ \E k \in DOMAIN file_data.expressions :
          /\ "(" \in ToSet(Split(file_data.reduced_expressions[k][2]))
          /\ "(" \notin ToSet(Split(file_data.expressions[k][2]))

\* the largest element of a non-empty set of numbers
Largest(S) == CHOOSE n \in S : \A m \in S : m <= n

\* the number of references of the longest chain of references that starts
\* at an expression, in a file without a cycle
RECURSIVE ChainLength(_)
ChainLength(name) ==
    IF RefsOf(name) = {} THEN 0
    ELSE 1 + Largest({ChainLength(f) : f \in RefsOf(name)})

\* d: the length of the longest chain of references of the file
LongestChain == Largest({0} \cup {ChainLength(e) : e \in ExpressionNames})

\* C29: for a file without a cycle of references whose longest chain of
\* references has d references, the while loop begins at most d + 1 passes:
\* after pass d + 1 all_primitive is true, and the loop is left, with no
\* pass and no body cut short by MaxPasses or MaxLength.
C29_PassBound ==
    (pc \in {"while", "for", "scan"} /\ AcyclicReferences) =>
        \E d \in {LongestChain} :
           /\ passes <= d + 1
           /\ d + 1 < MaxPasses
           /\ (pc = "while" /\ passes = d + 1) => all_primitive
           /\ (pc = "for" /\ position <= Len(expr_dict))
                 => WithinLength(position)

\* the loop has been left after three passes over three expressions that
\* form a chain of two references
C29_Witness ==
    /\ pc = "scan"
    /\ AcyclicReferences
    /\ Len(expr_dict) = 3
    /\ LongestChain = 2
    /\ passes = 3

\* an expression names itself and another expression names it
ReferencedSelfReference ==
    \E a, b \in ExpressionNames :
        /\ a # b
        /\ b \in RefsOf(b)
        /\ b \in RefsOf(a)

\* the file has one expression, and it names itself
LoneSelfReference ==
    \E b \in ExpressionNames :
        /\ ExpressionNames = {b}
        /\ b \in RefsOf(b)

\* C30: for a file in which an expression names itself and another
\* expression names it, the while loop is never left, so the scan and its
\* assertion are never reached; for a file whose only expression names
\* itself, the loop is left after one pass and the scan ends in a failed
\* assertion, never in a FileData handed back.
C30_ReferencedSelfReferenceDiverges ==
    (Built /\ run = 1) =>
        /\ ReferencedSelfReference => pc \in {"reduce", "while", "for"}
        /\ LoneSelfReference =>
              /\ pc \in {"reduce", "while", "for", "scan", "AssertionError"}
              /\ passes <= 1
              /\ pc \in {"scan", "AssertionError"} => passes = 1

====
